---- MODULE Spec2Model ----
(***************************************************************************)
(* Recommendation engine, roadmap builder and comparative analysis of      *)
(* src/Neo4J/consultar.py, with the graph queries of src/Neo4J/neo_queries *)
(* and the relationship upsert of relacionarAlumnos.py that feed them.     *)
(*                                                                         *)
(* Python values are modelled as follows.                                  *)
(*   - a dict is a record; a key that is absent from the dict is absent    *)
(*     from the record's DOMAIN;                                           *)
(*   - None / Optional[x] is a sequence of length 0 / 1;                   *)
(*   - a list is a sequence; a dict keyed by (tipo, nombre) is a sequence  *)
(*     of its values in insertion order (Python dicts keep that order);    *)
(*   - an ISO date string "YYYY-MM-DD" is the integer YYYYMMDD, whose      *)
(*     order is the lexicographic order of the fixed-width strings.        *)
(*   - a percentage is an integer number of 1/Escala percent; averages are *)
(*     kept as (sum, count) and compared by cross-multiplication.          *)
(* The "motivo" text of a roadmap entry and the console output are not     *)
(* modelled.                                                               *)
(***************************************************************************)
EXTENDS Integers, Sequences, FiniteSets, TLC

\* ------------------------------------------------------------------------
\* Program constants
\* ------------------------------------------------------------------------
MAX_ACTIVIDADES_NUEVAS == 10
FECHA_MAXIMA == 99991231
UMBRAL_MUY_LENTO == 30
UMBRAL_LENTO == 10
UMBRAL_EFICIENTE == -10
UMBRAL_MUY_EFICIENTE == -25
\* fetch_actividades_lentas_alumno: WHERE intentos_global >= 3, LIMIT 10, > 30
MIN_INTENTOS_GLOBAL == 3
LIMITE_LENTAS == 10
UMBRAL_MUY_LENTO_BD == 30

\* ------------------------------------------------------------------------
\* Bounds of the model
\* ------------------------------------------------------------------------
\* longest progress list / slow-activities list given to the roadmap builder
MaxProg == 2
MaxLentas == 2
\* distinct never-seen activities the fetcher can supply to the builder above
MaxFresh == 1
\* longest progress list given to recomendar_siguiente_from_progress alone
MaxProgRec == 3
\* new-phase study: progress length, fetcher catalogue, calls before exhaustion
MaxProgNuevas == 1
MaxCatalogo == 12
MaxLlamadas == 3
\* graph database built by upserts: relationships it may hold
MaxRelaciones == 4
\* slow-activities query alone: activities of one cohort
MaxActividadesBD == 11
\* comparative analysis: activities in the student's statistics
MaxActividadesAnalisis == 2
MaxProgFases == 2
MaxLentasFases == 2
MaxProgSim == 2

Nombres == {"a", "b"}
Estados == {"Intento", "Completado", "Perfecto"}
Fechas == {<<>>, <<20240101>>, <<20240301>>}

VARIABLES
    progreso,                     \* argument: the student's progress list
    actividades_lentas,           \* argument: slow activities (<<>> = None or [])
    catalogo,                     \* fetcher: how many distinct new activities it holds
    restantes,                    \* fetcher: <<n>> = exhausted after n more calls, <<>> = no promise
    entregadas,                   \* fetcher: how many distinct new activities it has returned
    pc,                           \* position in the session and inside generar_roadmap_from_progress_and_fetcher
    prog_map,
    actividades_intento,
    actividades_mejora,
    actividades_lentas_activas,
    roadmap,
    actividades_vistas,
    siguiente,                    \* last value returned by fetch_next_for_avance
    actividades_nuevas_agregadas,
    sugerencia,                   \* <<result>> of recomendar_siguiente_from_progress, <<>> before the call
    progreso_sin_rap,             \* the list recomendar_siguiente_from_progress works on
    salida,                       \* <<how ver_siguiente_actividad_alumno ended>>, <<>> before the call
    relaciones,                   \* graph database: the Alumno -> activity relationships
    stats_globales,               \* what fetch_estadisticas_globales_func returns
    stats_alumno,                 \* what fetch_estadisticas_alumno_func returns
    analisis,                     \* <<result>> of analizar_rendimiento_comparativo, <<>> before the call
    llamadas,                     \* fetchers analizar_rendimiento_comparativo has called, in order
    seen                          \* fetch_roadmap_desde_progreso: the (tipo, nombre, estrategia) placed

vars == <<progreso, actividades_lentas, catalogo, restantes, entregadas, pc, prog_map,
          actividades_intento, actividades_mejora, actividades_lentas_activas,
          roadmap, actividades_vistas, siguiente, actividades_nuevas_agregadas,
          sugerencia, progreso_sin_rap, salida, relaciones, stats_globales,
          stats_alumno, analisis, llamadas, seen>>

\* ------------------------------------------------------------------------
\* Helpers on Python values
\* ------------------------------------------------------------------------
Clave(act) == <<act.tipo, act.nombre>>

EsRAP(act) == act.tipo = "RAP"

\* {**a, **b}
Combinar(a, b) == [k \in (DOMAIN a) \cup (DOMAIN b) |-> IF k \in DOMAIN b THEN b[k] ELSE a[k]]

Claves(lista) == {Clave(lista[i]) : i \in 1..Len(lista)}

ListasHasta(S, n) == UNION {[1..k -> S] : k \in 0..n}

\* ------------------------------------------------------------------------
\* recomendar_siguiente_from_progress
\* ------------------------------------------------------------------------
\* a key that sorts the items without a start first
ClaveAntiguedadSinCentinela(x) == IF x.start = <<>> THEN 0 ELSE x.start[1]

\* key=lambda x: x.get("start") or FECHA_MAXIMA
ClaveAntiguedad(x) == IF x.start = <<>> THEN FECHA_MAXIMA ELSE x.start[1]

\* insertion of x into a list sorted ascending, after the elements of equal key
RECURSIVE InsertarPorAntiguedad(_, _)
InsertarPorAntiguedad(ordenada, x) ==
    IF ordenada = <<>> THEN <<x>>
    ELSE IF ClaveAntiguedad(x) < ClaveAntiguedad(Head(ordenada))
         THEN <<x>> \o ordenada
         ELSE <<Head(ordenada)>> \o InsertarPorAntiguedad(Tail(ordenada), x)

\* sorted(actividades, key=...): stable, ascending
RECURSIVE _ordenar_por_antiguedad(_)
_ordenar_por_antiguedad(actividades) ==
    IF actividades = <<>> THEN <<>>
    ELSE InsertarPorAntiguedad(
             _ordenar_por_antiguedad(SubSeq(actividades, 1, Len(actividades) - 1)),
             actividades[Len(actividades)])

NoEsRAP(p) == p.tipo # "RAP"
EnIntento(p) == p.estado = "Intento"
EnCompletado(p) == p.estado = "Completado"

\* a filter that lets every item through
FiltrarNada(lista) == lista

\* a filter that drops the first RAP item only
FiltrarPrimerRAP(lista) ==
    IF \E i \in 1..Len(lista) : lista[i].tipo = "RAP"
    THEN LET i == CHOOSE i \in 1..Len(lista) :
                      lista[i].tipo = "RAP" /\ \A j \in 1..(i - 1) : lista[j].tipo # "RAP"
         IN  SubSeq(lista, 1, i - 1) \o SubSeq(lista, i + 1, Len(lista))
    ELSE lista

FiltrarRAP(lista) == SelectSeq(lista, NoEsRAP)

\* the priority order with the Completado group looked at first
recomendar_mejora_primero(prog) ==
    IF prog = <<>> THEN [estrategia |-> "nuevas", actividad |-> <<>>]
    ELSE LET progreso_filtrado == FiltrarRAP(prog)
             intentos == SelectSeq(progreso_filtrado, EnIntento)
             completados == SelectSeq(progreso_filtrado, EnCompletado)
         IN  IF progreso_filtrado = <<>>
                 THEN [estrategia |-> "nuevas", actividad |-> <<>>]
             ELSE IF completados # <<>>
                 THEN [estrategia |-> "mejora",
                       actividad |-> <<Head(_ordenar_por_antiguedad(completados))>>]
             ELSE IF intentos # <<>>
                 THEN [estrategia |-> "refuerzo",
                       actividad |-> <<Head(_ordenar_por_antiguedad(intentos))>>]
             ELSE [estrategia |-> "nuevas", actividad |-> <<>>]

recomendar_siguiente_from_progress(prog) ==
    IF prog = <<>> THEN [estrategia |-> "nuevas", actividad |-> <<>>]
    ELSE LET progreso_filtrado == FiltrarRAP(prog)
             intentos == SelectSeq(progreso_filtrado, EnIntento)
             completados == SelectSeq(progreso_filtrado, EnCompletado)
         IN  IF progreso_filtrado = <<>>
                 THEN [estrategia |-> "nuevas", actividad |-> <<>>]
             ELSE IF intentos # <<>>
                 THEN [estrategia |-> "refuerzo",
                       actividad |-> <<Head(_ordenar_por_antiguedad(intentos))>>]
             ELSE IF completados # <<>>
                 THEN [estrategia |-> "mejora",
                       actividad |-> <<Head(_ordenar_por_antiguedad(completados))>>]
             ELSE [estrategia |-> "nuevas", actividad |-> <<>>]

\* ------------------------------------------------------------------------
\* Roadmap builder: pure parts
\* ------------------------------------------------------------------------
\* prog_map[key] = p on a dict kept as the sequence of its values
PonerEnMapa(mapa, p) ==
    IF \E i \in 1..Len(mapa) : Clave(mapa[i]) = Clave(p)
    THEN [i \in 1..Len(mapa) |-> IF Clave(mapa[i]) = Clave(p) THEN p ELSE mapa[i]]
    ELSE Append(mapa, p)

\* the dict built from a list of items, in order
RECURSIVE MapaDe(_)
MapaDe(items) ==
    IF items = <<>> THEN <<>>
    ELSE PonerEnMapa(MapaDe(SubSeq(items, 1, Len(items) - 1)), items[Len(items)])

\* a progress map that keeps the RAP items
_crear_mapa_progreso_con_rap(prog) == MapaDe(prog)

_crear_mapa_progreso(prog) == MapaDe(SelectSeq(prog, NoEsRAP))

ValorEnMapa(mapa, clave) == mapa[CHOOSE i \in 1..Len(mapa) : Clave(mapa[i]) = clave]

\* key=lambda x: x.get('diferencia_porcentual', 0)
ClaveDiferencia(x) == IF "diferencia_porcentual" \in DOMAIN x THEN x.diferencia_porcentual ELSE 0

\* insertion of x into a list sorted descending, after the elements of equal key
RECURSIVE InsertarPorDiferencia(_, _)
InsertarPorDiferencia(ordenada, x) ==
    IF ordenada = <<>> THEN <<x>>
    ELSE IF ClaveDiferencia(x) > ClaveDiferencia(Head(ordenada))
         THEN <<x>> \o ordenada
         ELSE <<Head(ordenada)>> \o InsertarPorDiferencia(Tail(ordenada), x)

\* lista.sort(key=..., reverse=True): stable, descending
RECURSIVE OrdenarPorDiferencia(_)
OrdenarPorDiferencia(lista) ==
    IF lista = <<>> THEN <<>>
    ELSE InsertarPorDiferencia(
             OrdenarPorDiferencia(SubSeq(lista, 1, Len(lista) - 1)),
             lista[Len(lista)])

RECURSIVE LentasValidas(_, _, _)
LentasValidas(lentas, mapa, vistas) ==
    IF lentas = <<>> THEN <<>>
    ELSE LET previas == LentasValidas(SubSeq(lentas, 1, Len(lentas) - 1), mapa, vistas)
             act_lenta == lentas[Len(lentas)]
             act_key == Clave(act_lenta)
         IN  IF act_key \in Claves(mapa) /\ act_key \notin vistas
             THEN Append(previas, Combinar(ValorEnMapa(mapa, act_key), act_lenta))
             ELSE previas

\* a slow phase that takes every slow activity, in the progress or not
_procesar_actividades_lentas_sin_mapa(lentas, mapa, vistas) ==
    OrdenarPorDiferencia(lentas)

\* a slow phase that keeps the order of the slow list
_procesar_actividades_lentas_sin_ordenar(lentas, mapa, vistas) ==
    LentasValidas(lentas, mapa, vistas)

_procesar_actividades_lentas(lentas, mapa, vistas) ==
    OrdenarPorDiferencia(LentasValidas(lentas, mapa, vistas))

_clasificar_actividades_por_estrategia(mapa, vistas, lentas) ==
    LET PorIntento(a) == a.estado = "Intento" /\ Clave(a) \notin vistas
        PorMejora(a) == a.estado = "Completado" /\ Clave(a) \notin vistas
    IN  [intento |-> SelectSeq(mapa, PorIntento),
         mejora |-> SelectSeq(mapa, PorMejora),
         lentas_activas |-> IF lentas # <<>>
                            THEN _procesar_actividades_lentas(lentas, mapa, vistas)
                            ELSE <<>>]

\* an iteration that appends without looking at the seen set
AgregarUnaSinVistas(estado, actividad, estrategia) ==
    [roadmap |-> Append(estado.roadmap,
                        [estrategia |-> estrategia, actividad |-> actividad]),
     vistas |-> estado.vistas \cup {Clave(actividad)}]

\* one iteration of the loop of _agregar_actividades_por_estrategia
AgregarUna(estado, actividad, estrategia) ==
    IF Clave(actividad) \notin estado.vistas
    THEN [roadmap |-> Append(estado.roadmap,
                             [estrategia |-> estrategia, actividad |-> actividad]),
          vistas |-> estado.vistas \cup {Clave(actividad)}]
    ELSE estado

RECURSIVE _agregar_actividades_por_estrategia(_, _, _)
_agregar_actividades_por_estrategia(estado, actividades, estrategia) ==
    IF actividades = <<>> THEN estado
    ELSE AgregarUna(
             _agregar_actividades_por_estrategia(
                 estado, SubSeq(actividades, 1, Len(actividades) - 1), estrategia),
             actividades[Len(actividades)], estrategia)

\* a loop condition that is off by one
PuedeAgregarNuevasDeMas(agregadas) == agregadas <= MAX_ACTIVIDADES_NUEVAS

\* while actividades_nuevas_agregadas < MAX_ACTIVIDADES_NUEVAS
PuedeAgregarNuevas(agregadas) == agregadas < MAX_ACTIVIDADES_NUEVAS

\* ------------------------------------------------------------------------
\* Inputs
\* ------------------------------------------------------------------------
\* progress items: gradeable activities in every state, and a RAP item in the
\* state that would be recommended first if it were not filtered out
ItemsProgreso(fechas) ==
    [tipo : {"Cuestionario"}, nombre : Nombres, estado : Estados, start : fechas]
    \cup [tipo : {"RAP"}, nombre : {"a"}, estado : {"Intento"}, start : fechas]

\* slow activities, with or without a diferencia_porcentual
ItemsLentas ==
    {[tipo |-> "Cuestionario", nombre |-> "a", diferencia_porcentual |-> 40],
     [tipo |-> "Cuestionario", nombre |-> "a"],
     [tipo |-> "Cuestionario", nombre |-> "b", diferencia_porcentual |-> -5],
     [tipo |-> "RAP", nombre |-> "a", diferencia_porcentual |-> 40]}

\* what fetch_next_for_avance may return
ActividadesRAP == [tipo : {"RAP"}, nombre : Nombres]
ActividadesConocidas == [tipo : {"Cuestionario"}, nombre : Nombres]
ActividadNueva(i) == [tipo |-> "Ayudantia", nombre |-> ToString(i)]

\* The fetcher is any function of its call history: each call returns None, a
\* RAP activity, an activity of the progress universe, one of the new
\* activities it returned before, or the next new activity of its catalogue
\* (new activities are interchangeable, so they come out in a fixed order).
\* A fetcher that promised to be exhausted after n calls returns None from then on.
Respuestas ==
    IF restantes = <<0>> THEN {<<>>}
    ELSE {<<>>}
         \cup {<<a>> : a \in ActividadesRAP \cup ActividadesConocidas}
         \cup {<<ActividadNueva(i)>> :
                   i \in 1..(IF entregadas < catalogo THEN entregadas + 1 ELSE catalogo)}

\* nothing has been called
Limpio ==
    /\ prog_map = <<>>
    /\ actividades_intento = <<>>
    /\ actividades_mejora = <<>>
    /\ actividades_lentas_activas = <<>>
    /\ roadmap = <<>>
    /\ actividades_vistas = {}
    /\ siguiente = <<>>
    /\ actividades_nuevas_agregadas = 0
    /\ entregadas = 0
    /\ sugerencia = <<>>
    /\ progreso_sin_rap = <<>>
    /\ salida = <<>>
    /\ analisis = <<>>
    /\ llamadas = <<>>
    /\ seen = {}

EnReposo ==
    /\ pc = "inicio"
    /\ Limpio

\* no graph database and no statistics: the functions get their arguments directly
SinBD ==
    /\ relaciones = {}
    /\ stats_globales = <<>>
    /\ stats_alumno = <<>>

\* roadmap builder with every progress list and slow-activities list
Init ==
    /\ progreso \in ListasHasta(ItemsProgreso({<<>>}), MaxProg)
    /\ actividades_lentas \in ListasHasta(ItemsLentas, MaxLentas)
    /\ catalogo = MaxFresh
    /\ restantes = <<>>
    /\ EnReposo
    /\ SinBD

\* recommendation engine alone, with dated progress items
InitRec ==
    /\ progreso \in ListasHasta(ItemsProgreso(Fechas), MaxProgRec)
    /\ actividades_lentas = <<>>
    /\ catalogo = 0
    /\ restantes = <<>>
    /\ EnReposo
    /\ SinBD

\* new phase: a fetcher with a large catalogue, with or without a promise to
\* be exhausted after finitely many calls
InitNuevas ==
    /\ progreso \in ListasHasta(ItemsProgreso({<<>>}), MaxProgNuevas)
    /\ actividades_lentas = <<>>
    /\ catalogo = MaxCatalogo
    /\ restantes \in {<<>>} \cup {<<n>> : n \in 0..MaxLlamadas}
    /\ EnReposo
    /\ SinBD

\* the phases of the builder: every progress list against every slow list,
\* with a fetcher that has one new activity
InitFases ==
    /\ progreso \in ListasHasta(ItemsProgreso({<<>>}), MaxProgFases)
    /\ actividades_lentas \in ListasHasta(ItemsLentas, MaxLentasFases)
    /\ catalogo = 1
    /\ restantes = <<1>>
    /\ EnReposo
    /\ SinBD

\* ------------------------------------------------------------------------
\* Actions
\* ------------------------------------------------------------------------
argumentos == <<progreso, actividades_lentas, catalogo>>
clasificadas == <<prog_map, actividades_intento, actividades_mejora, actividades_lentas_activas>>
fase_nuevas == <<siguiente, actividades_nuevas_agregadas, entregadas, restantes>>
sesion == <<sugerencia, progreso_sin_rap, salida, seen>>
entorno == <<relaciones, stats_globales, stats_alumno, analisis, llamadas>>

\* how ver_siguiente_actividad_alumno ends for a progress list.  With no
\* progress it asks fetch_siguiente_actividad and returns.  Otherwise it never
\* asks it: the result of recomendar_siguiente_from_progress is a dict of two
\* keys, so "if not sugerencia" is false, and act.get(...) is evaluated on
\* sugerencia['actividad'], which raises AttributeError when that is None.
ver_siguiente_actividad_alumno(prog) ==
    IF prog = <<>> THEN [fin |-> "normal", fetcher |-> TRUE]
    ELSE IF recomendar_siguiente_from_progress(prog).actividad = <<>>
         THEN [fin |-> "AttributeError", fetcher |-> FALSE]
         ELSE [fin |-> "normal", fetcher |-> FALSE]

\* main.py, ver_siguiente_actividad_alumno.  The value of
\* recomendar_siguiente_from_progress is recorded for the empty progress too.
\* The session modelled asks for the next activity and then, in this run of
\* the program or in another, for the roadmap; both only read the progress.
Recomendar ==
    /\ pc = "inicio"
    /\ sugerencia' = <<recomendar_siguiente_from_progress(progreso)>>
    /\ progreso_sin_rap' = FiltrarRAP(progreso)
    /\ salida' = <<ver_siguiente_actividad_alumno(progreso)>>
    /\ pc' = "recomendado"
    /\ UNCHANGED <<argumentos, clasificadas, fase_nuevas, roadmap, actividades_vistas, entorno,
                   seen>>

\* a classification that merges the slow data into the progress items
\* themselves (prog_map[act_key].update(act_lenta)) instead of into a new dict
ClasificarEnSitio ==
    /\ pc = "recomendado"
    /\ LET mapa == _crear_mapa_progreso(progreso)
           c == _clasificar_actividades_por_estrategia(mapa, {}, actividades_lentas)
           Lenta(p) == {j \in 1..Len(actividades_lentas) :
                           Clave(actividades_lentas[j]) = Clave(p)}
       IN  /\ prog_map' = mapa
           /\ actividades_intento' = c.intento
           /\ actividades_mejora' = c.mejora
           /\ actividades_lentas_activas' = c.lentas_activas
           /\ progreso' = [i \in 1..Len(progreso) |->
                              IF NoEsRAP(progreso[i]) /\ Lenta(progreso[i]) # {}
                              THEN Combinar(progreso[i],
                                       actividades_lentas[CHOOSE j \in Lenta(progreso[i]) : TRUE])
                              ELSE progreso[i]]
    /\ roadmap' = <<>>
    /\ actividades_vistas' = {}
    /\ pc' = "refuerzo"
    /\ UNCHANGED <<actividades_lentas, catalogo, fase_nuevas, sesion, entorno>>

\* generar_roadmap_from_progress_and_fetcher, steps 1 and 2
Clasificar ==
    /\ pc = "recomendado"
    /\ LET mapa == _crear_mapa_progreso(progreso)
           c == _clasificar_actividades_por_estrategia(mapa, {}, actividades_lentas)
       IN  /\ prog_map' = mapa
           /\ actividades_intento' = c.intento
           /\ actividades_mejora' = c.mejora
           /\ actividades_lentas_activas' = c.lentas_activas
    /\ roadmap' = <<>>
    /\ actividades_vistas' = {}
    /\ pc' = "refuerzo"
    /\ UNCHANGED <<argumentos, fase_nuevas, sesion, entorno>>

Fase(desde, actividades, estrategia, hasta) ==
    /\ pc = desde
    /\ LET e == _agregar_actividades_por_estrategia(
                    [roadmap |-> roadmap, vistas |-> actividades_vistas],
                    actividades, estrategia)
       IN  /\ roadmap' = e.roadmap
           /\ actividades_vistas' = e.vistas
    /\ pc' = hasta
    /\ UNCHANGED <<argumentos, clasificadas, fase_nuevas, sesion, entorno>>

\* a first phase that places the Completado activities
AgregarMejoraPrimero == Fase("refuerzo", actividades_mejora, "mejora", "refuerzo_tiempo")

\* step 3.1
AgregarRefuerzo == Fase("refuerzo", actividades_intento, "refuerzo", "refuerzo_tiempo")

\* a second phase that leaves out the slow activities that are Perfecto
AgregarRefuerzoTiempoSoloCompletado ==
    Fase("refuerzo_tiempo", SelectSeq(actividades_lentas_activas, EnCompletado),
         "refuerzo_tiempo", "mejora")

\* step 3.2
AgregarRefuerzoTiempo ==
    Fase("refuerzo_tiempo", actividades_lentas_activas, "refuerzo_tiempo", "mejora")

\* a third phase that places nothing
AgregarMejoraOmitida == Fase("mejora", <<>>, "mejora", "nuevas")

\* step 3.3
AgregarMejora == Fase("mejora", actividades_mejora, "mejora", "nuevas")

\* a loop that goes on when the fetcher returns None
ProcesarSiguienteSinFin(resp) ==
    IF resp = <<>>
    THEN /\ pc' = "nuevas"
         /\ UNCHANGED <<roadmap, actividades_vistas, actividades_nuevas_agregadas>>
    ELSE IF Clave(resp[1]) \notin actividades_vistas
    THEN /\ actividades_vistas' = actividades_vistas \cup {Clave(resp[1])}
         /\ roadmap' = Append(roadmap, [estrategia |-> "nuevas", actividad |-> resp[1]])
         /\ actividades_nuevas_agregadas' = actividades_nuevas_agregadas + 1
         /\ pc' = IF PuedeAgregarNuevas(actividades_nuevas_agregadas + 1)
                  THEN "nuevas" ELSE "fin"
    ELSE /\ pc' = "fin"
         /\ UNCHANGED <<roadmap, actividades_vistas, actividades_nuevas_agregadas>>

\* a loop that skips an activity already in the roadmap and goes on
ProcesarSiguienteSaltando(resp) ==
    IF resp = <<>>
    THEN /\ pc' = "fin"
         /\ UNCHANGED <<roadmap, actividades_vistas, actividades_nuevas_agregadas>>
    ELSE IF Clave(resp[1]) \notin actividades_vistas
    THEN /\ actividades_vistas' = actividades_vistas \cup {Clave(resp[1])}
         /\ roadmap' = Append(roadmap, [estrategia |-> "nuevas", actividad |-> resp[1]])
         /\ actividades_nuevas_agregadas' = actividades_nuevas_agregadas + 1
         /\ pc' = IF PuedeAgregarNuevas(actividades_nuevas_agregadas + 1)
                  THEN "nuevas" ELSE "fin"
    ELSE /\ pc' = "nuevas"
         /\ UNCHANGED <<roadmap, actividades_vistas, actividades_nuevas_agregadas>>

\* a loop that only the cap of new activities ends
ProcesarSiguienteSinBreak(resp) ==
    IF resp = <<>>
    THEN /\ pc' = "nuevas"
         /\ UNCHANGED <<roadmap, actividades_vistas, actividades_nuevas_agregadas>>
    ELSE IF Clave(resp[1]) \notin actividades_vistas
    THEN /\ actividades_vistas' = actividades_vistas \cup {Clave(resp[1])}
         /\ roadmap' = Append(roadmap, [estrategia |-> "nuevas", actividad |-> resp[1]])
         /\ actividades_nuevas_agregadas' = actividades_nuevas_agregadas + 1
         /\ pc' = IF PuedeAgregarNuevas(actividades_nuevas_agregadas + 1)
                  THEN "nuevas" ELSE "fin"
    ELSE /\ pc' = "nuevas"
         /\ UNCHANGED <<roadmap, actividades_vistas, actividades_nuevas_agregadas>>

\* what _agregar_actividades_nuevas does with a value that is not a RAP activity
ProcesarSiguiente(resp) ==
    IF resp = <<>>
    THEN /\ pc' = "fin"
         /\ UNCHANGED <<roadmap, actividades_vistas, actividades_nuevas_agregadas>>
    ELSE IF Clave(resp[1]) \notin actividades_vistas
    THEN /\ actividades_vistas' = actividades_vistas \cup {Clave(resp[1])}
         /\ roadmap' = Append(roadmap, [estrategia |-> "nuevas", actividad |-> resp[1]])
         /\ actividades_nuevas_agregadas' = actividades_nuevas_agregadas + 1
         /\ pc' = IF PuedeAgregarNuevas(actividades_nuevas_agregadas + 1)
                  THEN "nuevas" ELSE "fin"
    ELSE /\ pc' = "fin"
         /\ UNCHANGED <<roadmap, actividades_vistas, actividades_nuevas_agregadas>>

\* one call of fetch_next_for_avance and the code that runs until the next call
Llamar(resp) ==
    /\ siguiente' = resp
    /\ restantes' = IF restantes = <<>> \/ restantes = <<0>> THEN restantes
                    ELSE <<restantes[1] - 1>>
    /\ entregadas' = IF resp # <<>> /\ resp[1] = ActividadNueva(entregadas + 1)
                     THEN entregadas + 1 ELSE entregadas
    /\ IF resp # <<>> /\ EsRAP(resp[1])
       THEN /\ pc' = "saltar_rap"
            /\ UNCHANGED <<roadmap, actividades_vistas, actividades_nuevas_agregadas>>
       ELSE ProcesarSiguiente(resp)
    /\ UNCHANGED <<argumentos, clasificadas, sesion, entorno>>

\* obtener_siguiente_no_rap: siguiente = fetch_next_for_avance()
ObtenerSiguiente ==
    /\ pc = "nuevas"
    /\ \E resp \in Respuestas : Llamar(resp)

\* obtener_siguiente_no_rap: the call inside the while that skips RAP
SaltarRAP ==
    /\ pc = "saltar_rap"
    /\ \E resp \in Respuestas : Llamar(resp)

\* ------------------------------------------------------------------------
\* Graph database: relationship upsert and the queries on it
\* ------------------------------------------------------------------------
\* A relationship is a record: the student, the label and name of the activity
\* node, the relationship type, and the properties start and duration_seconds.
Alumnos == {"x", "y", "z"}

\* the student whose data are asked for (students are interchangeable)
Consultado == "x"

VALID_RELACIONES == {"Intento", "Completado", "Perfecto"}

ActividadesBD == {[tipo |-> "Cuestionario", nombre |-> "a"]}

DuracionesBD == {<<>>, <<100>>, <<300>>}

\* MERGE (al)-[r:<tipo_relacion>]->(n) SET ...: the relationship of that type
\* between the two nodes is created if there is none; a property is set only
\* when its argument is not None.
crear_relacion(rels, alumno_correo, nodo_nombre, tipo_relacion, nodo_label, start_iso, duration_seconds) ==
    LET existentes == {r \in rels : /\ r.alumno = alumno_correo
                                    /\ r.tipo = nodo_label
                                    /\ r.nombre = nodo_nombre
                                    /\ r.relacion = tipo_relacion}
        nueva == [alumno |-> alumno_correo, tipo |-> nodo_label, nombre |-> nodo_nombre,
                  relacion |-> tipo_relacion, start |-> start_iso,
                  duration_seconds |-> duration_seconds]
        Actualizada(r) ==
            [r EXCEPT !.start = IF start_iso # <<>> THEN start_iso ELSE @,
                      !.duration_seconds = IF duration_seconds # <<>>
                                           THEN duration_seconds ELSE @]
    IN  IF existentes = {} THEN rels \cup {nueva}
        ELSE (rels \ existentes) \cup {Actualizada(r) : r \in existentes}

\* the rows of a query come in any order
RECURSIVE Permutaciones(_)
Permutaciones(S) ==
    IF S = {} THEN {<<>>}
    ELSE UNION {{<<x>> \o s : s \in Permutaciones(S \ {x})} : x \in S}

FilaProgreso(r) ==
    [tipo |-> r.tipo, nombre |-> r.nombre, estado |-> r.relacion, start |-> r.start]

\* the lists fetch_progreso_alumno may return: one item per relationship of
\* the student with a node that is not RAP
fetch_progreso_alumno(rels, correo) ==
    LET filas == {r \in rels : r.alumno = correo /\ r.tipo # "RAP"}
    IN  {[i \in 1..Len(s) |-> FilaProgreso(s[i])] : s \in Permutaciones(filas)}

\* a check that also takes a Completado activity as done
fetch_verificar_alumno_perfecto_o_completado(rels, correo) ==
    LET filas == {r \in rels : r.alumno = correo /\ r.tipo # "RAP"}
    IN  Cardinality(filas) =
            Cardinality({r \in filas : r.relacion \in {"Perfecto", "Completado"}})

\* total_actividades = total_perfectos
fetch_verificar_alumno_perfecto(rels, correo) ==
    LET filas == {r \in rels : r.alumno = correo /\ r.tipo # "RAP"}
    IN  Cardinality(filas) = Cardinality({r \in filas : r.relacion = "Perfecto"})

\* r.duration_seconds IS NOT NULL AND r.duration_seconds > 0 AND NOT RAP
ConDuracion(rels) ==
    {r \in rels : /\ r.duration_seconds # <<>>
                  /\ r.duration_seconds[1] > 0
                  /\ r.tipo # "RAP"}

DeActividad(rels, tipo, nombre) == {r \in rels : r.tipo = tipo /\ r.nombre = nombre}

RECURSIVE SumaDuraciones(_)
SumaDuraciones(rels) ==
    IF rels = {} THEN 0
    ELSE LET r == CHOOSE r \in rels : TRUE
         IN  r.duration_seconds[1] + SumaDuraciones(rels \ {r})

Escala == 100

\* ((alumno - global) / global) * 100 for the averages sa/ca and sg/cg, sg > 0
DiferenciaPorcentual(sa, ca, sg, cg) == ((sa * cg - sg * ca) * 100 * Escala) \div (sg * ca)

\* a floor of two attempts
SuficienteDataGlobalConDos(intentos_global) == intentos_global >= MIN_INTENTOS_GLOBAL - 1

\* WHERE intentos_global >= 3
SuficienteDataGlobal(intentos_global) == intentos_global >= MIN_INTENTOS_GLOBAL

\* the rows of fetch_actividades_lentas_alumno before ORDER BY and LIMIT
FilasLentas(rels, correo) ==
    LET propias == {r \in ConDuracion(rels) : r.alumno = correo}
        claves == {<<r.tipo, r.nombre>> : r \in propias}
        Sa(k) == SumaDuraciones(DeActividad(propias, k[1], k[2]))
        Ca(k) == Cardinality(DeActividad(propias, k[1], k[2]))
        Sg(k) == SumaDuraciones(DeActividad(ConDuracion(rels), k[1], k[2]))
        Cg(k) == Cardinality(DeActividad(ConDuracion(rels), k[1], k[2]))
        Fila(k) ==
            [tipo |-> k[1], nombre |-> k[2],
             intentos_alumno |-> Ca(k), intentos_global |-> Cg(k),
             diferencia_porcentual |-> DiferenciaPorcentual(Sa(k), Ca(k), Sg(k), Cg(k)),
             eficiencia |-> IF (Sa(k) * Cg(k) - Sg(k) * Ca(k)) * 100
                                   > UMBRAL_MUY_LENTO_BD * Sg(k) * Ca(k)
                            THEN "MUY_LENTO" ELSE "LENTO"]
    IN  {Fila(k) : k \in {c \in claves : /\ SuficienteDataGlobal(Cg(c))
                                         /\ Sa(c) * Cg(c) > Sg(c) * Ca(c)}}

\* ORDER BY diferencia_porcentual DESC: every order of the rows that is
\* descending (rows of equal value come in any order)
RECURSIVE OrdenadasDesc(_)
OrdenadasDesc(filas) ==
    IF filas = {} THEN {<<>>}
    ELSE UNION {{<<m>> \o s : s \in OrdenadasDesc(filas \ {m})} :
                   m \in {f \in filas : \A g \in filas :
                              g.diferencia_porcentual <= f.diferencia_porcentual}}

\* a query with no LIMIT
LimitarSinLimite(s) == s

\* LIMIT 10
Limitar(s) == IF Len(s) <= LIMITE_LENTAS THEN s ELSE SubSeq(s, 1, LIMITE_LENTAS)

\* the lists fetch_actividades_lentas_alumno may return
fetch_actividades_lentas_alumno(rels, correo) ==
    {Limitar(s) : s \in OrdenadasDesc(FilasLentas(rels, correo))}

\* a cohort of n activities: two students took 100 s on each, and the student
\* asked about took longer on those of the set lentas and less on the others
Cohorte(n, lentas) ==
    UNION {{[alumno |-> "y", tipo |-> "Cuestionario", nombre |-> ToString(i),
             relacion |-> "Perfecto", start |-> <<>>, duration_seconds |-> <<100>>],
            [alumno |-> "z", tipo |-> "Cuestionario", nombre |-> ToString(i),
             relacion |-> "Completado", start |-> <<>>, duration_seconds |-> <<100>>],
            [alumno |-> Consultado, tipo |-> "Cuestionario", nombre |-> ToString(i),
             relacion |-> "Completado", start |-> <<>>,
             duration_seconds |-> IF i \in lentas THEN <<100 + 10 * i>> ELSE <<70>>]} :
           i \in 1..n}

\* an empty database that the CSV import fills
InitBD ==
    /\ progreso = <<>>
    /\ actividades_lentas = <<>>
    /\ catalogo = 0
    /\ restantes = <<1>>
    /\ pc = "bd"
    /\ Limpio
    /\ relaciones = {}
    /\ stats_globales = <<>>
    /\ stats_alumno = <<>>

\* a database that holds a cohort
InitLentas ==
    /\ progreso = <<>>
    /\ actividades_lentas = <<>>
    /\ catalogo = 0
    /\ restantes = <<0>>
    /\ pc = "bd"
    /\ Limpio
    /\ \E n \in 0..MaxActividadesBD : \E lentas \in SUBSET (1..n) :
           relaciones = Cohorte(n, lentas)
    /\ stats_globales = <<>>
    /\ stats_alumno = <<>>

\* procesar_csv: one upsert for a student of the CSV file and the activity the
\* file is matched to; the relationship type comes from the row's state and grade
CrearRelacion ==
    /\ pc = "bd"
    /\ \E alumno \in Alumnos, act \in ActividadesBD,
          tipo_relacion \in VALID_RELACIONES, duration_seconds \in DuracionesBD :
           LET rels == crear_relacion(relaciones, alumno, act.nombre, tipo_relacion,
                                      act.tipo, <<>>, duration_seconds)
           IN  /\ Cardinality(rels) <= MaxRelaciones
               /\ relaciones' = rels
    /\ UNCHANGED <<argumentos, clasificadas, fase_nuevas, roadmap, actividades_vistas,
                   sesion, pc, stats_globales, stats_alumno, analisis, llamadas>>

\* main.py, ver_roadmap_alumno, up to the call of the roadmap builder: with no
\* progress it returns, otherwise it fetches the slow activities
VerRoadmapAlumno ==
    /\ pc = "bd"
    /\ \E prog \in fetch_progreso_alumno(relaciones, Consultado) :
           /\ progreso' = prog
           /\ IF prog = <<>>
              THEN /\ actividades_lentas' = <<>>
                   /\ pc' = "fin"
              ELSE /\ actividades_lentas' \in
                          fetch_actividades_lentas_alumno(relaciones, Consultado)
                   /\ pc' = "recomendado"
    /\ UNCHANGED <<catalogo, clasificadas, fase_nuevas, roadmap, actividades_vistas,
                   sesion, entorno>>

\* fetch_actividades_lentas_alumno alone
FetchActividadesLentas ==
    /\ pc = "bd"
    /\ actividades_lentas' \in fetch_actividades_lentas_alumno(relaciones, Consultado)
    /\ pc' = "lentas"
    /\ UNCHANGED <<progreso, catalogo, clasificadas, fase_nuevas, roadmap,
                   actividades_vistas, sesion, entorno>>

\* ------------------------------------------------------------------------
\* analizar_rendimiento_comparativo
\* ------------------------------------------------------------------------
\* stats_globales is the sequence of the entries of the nested dict, each
\* [tipo, nombre, duracion_promedio]; stats_alumno["actividades"] is the
\* sequence of its values, each [tipo, nombre, intentos], where intentos is the
\* sequence of the attempts' duracion_segundos (0 for an attempt with no time).
\* Of the insights only the recommendations are kept, as a tag per text.

\* a table whose first bound is inclusive
_categorizar_eficiencia_hasta_25(diferencia_porcentual) ==
    IF diferencia_porcentual <= UMBRAL_MUY_EFICIENTE * Escala THEN "MUY_EFICIENTE"
    ELSE IF diferencia_porcentual < UMBRAL_EFICIENTE * Escala THEN "EFICIENTE"
    ELSE IF diferencia_porcentual < UMBRAL_LENTO * Escala THEN "PROMEDIO"
    ELSE IF diferencia_porcentual < UMBRAL_MUY_LENTO * Escala THEN "LENTO"
    ELSE "MUY_LENTO"

\* a table that takes 10 as average
_categorizar_eficiencia_hasta_10(diferencia_porcentual) ==
    IF diferencia_porcentual < UMBRAL_MUY_EFICIENTE * Escala THEN "MUY_EFICIENTE"
    ELSE IF diferencia_porcentual < UMBRAL_EFICIENTE * Escala THEN "EFICIENTE"
    ELSE IF diferencia_porcentual <= UMBRAL_LENTO * Escala THEN "PROMEDIO"
    ELSE IF diferencia_porcentual < UMBRAL_MUY_LENTO * Escala THEN "LENTO"
    ELSE "MUY_LENTO"

_categorizar_eficiencia(diferencia_porcentual) ==
    IF diferencia_porcentual < UMBRAL_MUY_EFICIENTE * Escala THEN "MUY_EFICIENTE"
    ELSE IF diferencia_porcentual < UMBRAL_EFICIENTE * Escala THEN "EFICIENTE"
    ELSE IF diferencia_porcentual < UMBRAL_LENTO * Escala THEN "PROMEDIO"
    ELSE IF diferencia_porcentual < UMBRAL_MUY_LENTO * Escala THEN "LENTO"
    ELSE "MUY_LENTO"

RECURSIVE Suma(_)
Suma(numeros) == IF numeros = <<>> THEN 0 ELSE Head(numeros) + Suma(Tail(numeros))

\* a filter that keeps the attempts with no time
ConTiempoOSinTiempo(duracion_segundos) == TRUE

ConTiempo(duracion_segundos) == duracion_segundos # 0

_crear_comparativa_actividad(actividad_alumno, duraciones_alumno, globales) ==
    LET comparativa == [actividad |-> actividad_alumno.nombre,
                        tipo |-> actividad_alumno.tipo,
                        total_intentos |-> Len(actividad_alumno.intentos)]
        EsLaMisma(g) == g.tipo = actividad_alumno.tipo /\ g.nombre = actividad_alumno.nombre
        stats_global == SelectSeq(globales, EsLaMisma)
        diferencia ==
            IF stats_global[1].duracion_promedio > 0
            THEN DiferenciaPorcentual(Suma(duraciones_alumno), Len(duraciones_alumno),
                                      stats_global[1].duracion_promedio, 1)
            ELSE 0
    IN  IF stats_global # <<>>
        THEN Combinar(comparativa,
                      [diferencia_porcentual |-> diferencia,
                       eficiencia |-> _categorizar_eficiencia(diferencia)])
        ELSE comparativa

\* the loop over the student's activities
RECURSIVE Comparativas(_, _)
Comparativas(actividades, globales) ==
    IF actividades = <<>> THEN <<>>
    ELSE LET previas == Comparativas(SubSeq(actividades, 1, Len(actividades) - 1), globales)
             actividad_alumno == actividades[Len(actividades)]
             duraciones_alumno == SelectSeq(actividad_alumno.intentos, ConTiempo)
         IN  IF duraciones_alumno = <<>> THEN previas
             ELSE Append(previas,
                         _crear_comparativa_actividad(actividad_alumno, duraciones_alumno, globales))

TieneEficiencia(c, eficiencia) == "eficiencia" \in DOMAIN c /\ c.eficiencia = eficiencia

\* the recommendations of _generar_insights_comparativos
\* insights that take half of the activities for most of them
_generar_insights_desde_la_mitad(comparativas) ==
    LET MuyEficiente(c) == TieneEficiencia(c, "MUY_EFICIENTE")
        Eficiente(c) == TieneEficiencia(c, "EFICIENTE")
        MuyLenta(c) == TieneEficiencia(c, "MUY_LENTO")
        actividades_muy_eficientes == SelectSeq(comparativas, MuyEficiente)
        actividades_eficientes == SelectSeq(comparativas, Eficiente)
        actividades_muy_lentas == SelectSeq(comparativas, MuyLenta)
    IN  (IF actividades_muy_lentas = <<>> THEN <<>>
         ELSE IF Len(actividades_muy_lentas) * 100 >= 50 * Len(comparativas)
              THEN <<"velocidad_general">>
              ELSE <<"actividades_especificas">>)
        \o (IF actividades_muy_eficientes # <<>> THEN <<"ayudar_a_companeros">> ELSE <<>>)
        \o (IF Len(actividades_muy_eficientes) + Len(actividades_eficientes)
                  > Len(actividades_muy_lentas)
            THEN <<"excelente_rendimiento">>
            ELSE <<"enfocate_en_la_eficiencia">>)

_generar_insights_comparativos(comparativas) ==
    LET MuyEficiente(c) == TieneEficiencia(c, "MUY_EFICIENTE")
        Eficiente(c) == TieneEficiencia(c, "EFICIENTE")
        MuyLenta(c) == TieneEficiencia(c, "MUY_LENTO")
        actividades_muy_eficientes == SelectSeq(comparativas, MuyEficiente)
        actividades_eficientes == SelectSeq(comparativas, Eficiente)
        actividades_muy_lentas == SelectSeq(comparativas, MuyLenta)
    IN  (IF actividades_muy_lentas = <<>> THEN <<>>
         ELSE IF Len(actividades_muy_lentas) * 100 > 50 * Len(comparativas)
              THEN <<"velocidad_general">>
              ELSE <<"actividades_especificas">>)
        \o (IF actividades_muy_eficientes # <<>> THEN <<"ayudar_a_companeros">> ELSE <<>>)
        \o (IF Len(actividades_muy_eficientes) + Len(actividades_eficientes)
                  > Len(actividades_muy_lentas)
            THEN <<"excelente_rendimiento">>
            ELSE <<"enfocate_en_la_eficiencia">>)

analizar_rendimiento_comparativo(todo_perfecto, globales, alumno) ==
    IF ~todo_perfecto THEN [error |-> "no_todo_perfecto"]
    ELSE LET actividades_alumno_sin_raps == SelectSeq(alumno, NoEsRAP)
             comparativas == Comparativas(actividades_alumno_sin_raps, globales)
         IN  [resumen_general |->
                  [total_actividades |-> Len(actividades_alumno_sin_raps),
                   actividades_analizadas |-> Len(comparativas)],
              comparativas |-> comparativas,
              recomendaciones |-> IF comparativas # <<>>
                                  THEN _generar_insights_comparativos(comparativas)
                                  ELSE <<>>]

\* the student's time on an activity whose cohort average is 1000 s: no time,
\* and times on, next to and between the bounds of the efficiency table
DuracionesAnalisis ==
    {0, 700, 749, 750, 751, 899, 900, 901, 1000, 1099, 1100, 1101, 1299, 1300, 1301, 1400}

ItemsEstadisticas(nombre) ==
    {[tipo |-> "Cuestionario", nombre |-> nombre, intentos |-> <<d>>] : d \in DuracionesAnalisis}
    \cup {[tipo |-> "Cuestionario", nombre |-> nombre, intentos |-> <<900, 0, 1300>>],
          [tipo |-> "RAP", nombre |-> nombre, intentos |-> <<1400>>]}

\* the statistics of a student on the first n activities, each present or not
RECURSIVE EstadisticasAlumno(_)
EstadisticasAlumno(n) ==
    IF n = 0 THEN {<<>>}
    ELSE {s \o t : s \in EstadisticasAlumno(n - 1),
                   t \in {<<>>} \cup {<<a>> : a \in ItemsEstadisticas(ToString(n))}}

\* cohort statistics for the activities of the set nombres
EstadisticasGlobales(n, nombres) ==
    SelectSeq([i \in 1..n |-> [tipo |-> "Cuestionario", nombre |-> ToString(i),
                               duracion_promedio |-> 1000]],
              LAMBDA g : g.nombre \in nombres)

\* what the student asked about may hold in the database
RelacionesAnalisis ==
    [alumno : {Consultado}, tipo : {"Cuestionario"}, nombre : {"a"},
     relacion : VALID_RELACIONES, start : {<<>>}, duration_seconds : {<<1000>>}]
    \cup [alumno : {Consultado}, tipo : {"RAP"}, nombre : {"a"},
          relacion : {"Intento"}, start : {<<>>}, duration_seconds : {<<1000>>}]

InitAnalisis ==
    /\ progreso = <<>>
    /\ actividades_lentas = <<>>
    /\ catalogo = 0
    /\ restantes = <<0>>
    /\ pc = "analisis"
    /\ Limpio
    /\ relaciones \in SUBSET RelacionesAnalisis
    /\ stats_globales \in
           {EstadisticasGlobales(MaxActividadesAnalisis, {ToString(i) : i \in 1..MaxActividadesAnalisis}),
            EstadisticasGlobales(MaxActividadesAnalisis, {"1"})}
    /\ stats_alumno \in EstadisticasAlumno(MaxActividadesAnalisis)

\* an analysis that fetches the statistics before it checks the eligibility
AnalizarRendimientoConDatosPrimero ==
    /\ pc = "analisis"
    /\ LET todo_perfecto == fetch_verificar_alumno_perfecto(relaciones, Consultado)
       IN  /\ analisis' = <<analizar_rendimiento_comparativo(
                                todo_perfecto, stats_globales, stats_alumno)>>
           /\ llamadas' = <<"fetch_estadisticas_globales_func",
                            "fetch_estadisticas_alumno_func",
                            "fetch_verificar_perfecto_func">>
    /\ pc' = "analizado"
    /\ UNCHANGED <<argumentos, clasificadas, fase_nuevas, roadmap, actividades_vistas,
                   sesion, relaciones, stats_globales, stats_alumno>>

\* analizar_rendimiento_comparativo with fetch_verificar_alumno_perfecto as
\* its eligibility check
AnalizarRendimiento ==
    /\ pc = "analisis"
    /\ LET todo_perfecto == fetch_verificar_alumno_perfecto(relaciones, Consultado)
       IN  /\ analisis' = <<analizar_rendimiento_comparativo(
                                todo_perfecto, stats_globales, stats_alumno)>>
           /\ llamadas' = IF todo_perfecto
                          THEN <<"fetch_verificar_perfecto_func",
                                 "fetch_estadisticas_globales_func",
                                 "fetch_estadisticas_alumno_func">>
                          ELSE <<"fetch_verificar_perfecto_func">>
    /\ pc' = "analizado"
    /\ UNCHANGED <<argumentos, clasificadas, fase_nuevas, roadmap, actividades_vistas,
                   sesion, relaciones, stats_globales, stats_alumno>>

\* ------------------------------------------------------------------------
\* neo_queries.py: the roadmap simulated from the progress
\* ------------------------------------------------------------------------

\* A dict object is either an item of the caller's list, named by its
\* position in the list (ref > 0; its estado is the one of progreso[ref]), or
\* a dict the function made (ref = 0, with an estado of its own).
Referencias(prog) ==
    [i \in 1..Len(prog) |-> [tipo |-> prog[i].tipo, nombre |-> prog[i].nombre, ref |-> i]]

\* the object as the function reads it
Objeto(prog, e) ==
    IF e.ref > 0 THEN prog[e.ref]
    ELSE [tipo |-> e.tipo, nombre |-> e.nombre, estado |-> e.estado]

\* list(prog_map.values())
Valores(prog, mapa) == [i \in 1..Len(mapa) |-> Objeto(prog, mapa[i])]

\* <<>> is None; actividad is the position of the chosen object in the list
fetch_recomendacion_siguiente(prog) ==
    LET Primero(estado) == CHOOSE i \in 1..Len(prog) :
                               /\ prog[i].estado = estado
                               /\ \A j \in 1..(i - 1) : prog[j].estado # estado
        Hay(estado) == \E i \in 1..Len(prog) : prog[i].estado = estado
    IN  IF prog = <<>> THEN <<>>
        ELSE IF Hay("Intento")
            THEN <<[estrategia |-> "refuerzo", actividad |-> Primero("Intento")]>>
        ELSE IF Hay("Completado")
            THEN <<[estrategia |-> "mejora", actividad |-> Primero("Completado")]>>
        ELSE IF Hay("Perfecto")
            THEN <<[estrategia |-> "avance", actividad |-> Primero("Perfecto")]>>
        ELSE <<>>

\* what fetch_next_for_avance may return to the simulation: None, an activity
\* of the progress or a new activity, any of them again and again; None for
\* ever once a fetcher that promised to be exhausted is
RespuestasSim ==
    IF restantes = <<0>> THEN {<<>>}
    ELSE {<<>>}
         \cup {<<[tipo |-> progreso[i].tipo, nombre |-> progreso[i].nombre]>> :
                   i \in 1..Len(progreso)}
         \cup {<<ActividadNueva(i)>> :
                   i \in 1..(IF entregadas < catalogo THEN entregadas + 1 ELSE catalogo)}

InitSim ==
    /\ progreso \in ListasHasta(ItemsProgreso({<<>>}), MaxProgSim)
    /\ actividades_lentas = <<>>
    /\ catalogo = 1
    /\ restantes \in {<<>>, <<1>>}
    /\ pc = "simular"
    /\ Limpio
    /\ SinBD

\* fetch_roadmap_desde_progreso up to its loop: the map holds the items of
\* the list themselves, the last one of each key
IniciarSimulacion ==
    /\ pc = "simular"
    /\ roadmap' = <<>>
    /\ seen' = {}
    /\ prog_map' = MapaDe(Referencias(progreso))
    /\ pc' = "while"
    /\ UNCHANGED <<argumentos, restantes, entregadas, siguiente, actividades_intento,
                   actividades_mejora, actividades_lentas_activas, actividades_vistas,
                   actividades_nuevas_agregadas, sugerencia, progreso_sin_rap, salida, entorno>>

\* the simulated change of state, written into the object the map holds
Marcar(act_tipo, act_nombre, estrategia) ==
    LET prog_key == <<act_tipo, act_nombre>>
        estado == IF estrategia = "refuerzo" THEN "Completado" ELSE "Perfecto"
    IN  IF prog_key \in Claves(prog_map)
        THEN LET i == CHOOSE j \in 1..Len(prog_map) : Clave(prog_map[j]) = prog_key
             IN  IF prog_map[i].ref > 0
                 THEN /\ progreso' = [progreso EXCEPT ![prog_map[i].ref].estado = estado]
                      /\ UNCHANGED prog_map
                 ELSE /\ prog_map' = [prog_map EXCEPT ![i].estado = estado]
                      /\ UNCHANGED progreso
        ELSE /\ prog_map' = Append(prog_map, [tipo |-> act_tipo, nombre |-> act_nombre,
                                              ref |-> 0, estado |-> "Completado"])
             /\ UNCHANGED progreso

\* a loop that goes on when the activity has been placed with the strategy
ColocarSinBreak(estrategia, actividad) ==
    LET act_key == <<actividad.tipo, actividad.nombre, estrategia>>
    IN  IF act_key \in seen
        THEN /\ pc' = "while"
             /\ UNCHANGED <<progreso, prog_map, roadmap, seen>>
        ELSE /\ seen' = seen \cup {act_key}
             /\ roadmap' = Append(roadmap, [estrategia |-> estrategia, actividad |-> actividad])
             /\ Marcar(actividad.tipo, actividad.nombre, estrategia)
             /\ pc' = "while"

\* the rest of an iteration, from act_key on
Colocar(estrategia, actividad) ==
    LET act_key == <<actividad.tipo, actividad.nombre, estrategia>>
    IN  IF act_key \in seen
        THEN /\ pc' = "return"
             /\ UNCHANGED <<progreso, prog_map, roadmap, seen>>
        ELSE /\ seen' = seen \cup {act_key}
             /\ roadmap' = Append(roadmap, [estrategia |-> estrategia, actividad |-> actividad])
             /\ Marcar(actividad.tipo, actividad.nombre, estrategia)
             /\ pc' = "while"

\* one iteration of the while loop
Simular ==
    /\ pc = "while"
    /\ LET rec == fetch_recomendacion_siguiente(Valores(progreso, prog_map))
       IN  IF rec = <<>>
           THEN /\ pc' = "return"
                /\ UNCHANGED <<progreso, prog_map, roadmap, seen, restantes, entregadas,
                               siguiente>>
           ELSE IF rec[1].estrategia = "avance"
           THEN \E resp \in RespuestasSim :
                    /\ siguiente' = resp
                    /\ restantes' = IF restantes = <<>> \/ restantes = <<0>> THEN restantes
                                    ELSE <<restantes[1] - 1>>
                    /\ entregadas' = IF resp # <<>> /\ resp[1] = ActividadNueva(entregadas + 1)
                                     THEN entregadas + 1 ELSE entregadas
                    /\ IF resp = <<>>
                       THEN /\ pc' = "return"
                            /\ UNCHANGED <<progreso, prog_map, roadmap, seen>>
                       ELSE Colocar("avance", resp[1])
           ELSE /\ Colocar(rec[1].estrategia, prog_map[rec[1].actividad])
                /\ UNCHANGED <<restantes, entregadas, siguiente>>
    /\ UNCHANGED <<actividades_lentas, catalogo, actividades_intento, actividades_mejora,
                   actividades_lentas_activas, actividades_vistas,
                   actividades_nuevas_agregadas, sugerencia, progreso_sin_rap, salida, entorno>>

Next ==
    \/ Recomendar
    \/ Clasificar
    \/ AgregarRefuerzo
    \/ AgregarRefuerzoTiempo
    \/ AgregarMejora
    \/ ObtenerSiguiente
    \/ SaltarRAP

NextRec == Recomendar

Spec == Init /\ [][Next]_vars

SpecRec == InitRec /\ [][NextRec]_vars

\* the program is sequential: it always takes its next step
SpecNuevas == InitNuevas /\ [][Next]_vars /\ WF_vars(Next)

\* the CSV import, then the roadmap of a student
NextBD ==
    \/ CrearRelacion
    \/ VerRoadmapAlumno
    \/ Clasificar
    \/ AgregarRefuerzo
    \/ AgregarRefuerzoTiempo
    \/ AgregarMejora
    \/ ObtenerSiguiente
    \/ SaltarRAP

SpecBD == InitBD /\ [][NextBD]_vars

SpecFases == InitFases /\ [][Next]_vars

NextSim ==
    \/ IniciarSimulacion
    \/ Simular

\* the function is sequential: it always takes its next step
SpecSim == InitSim /\ [][NextSim]_vars /\ WF_vars(NextSim)

NextLentas == FetchActividadesLentas

NextAnalisis == AnalizarRendimiento

SpecAnalisis == InitAnalisis /\ [][NextAnalisis]_vars

SpecLentas == InitLentas /\ [][NextLentas]_vars

\* ------------------------------------------------------------------------
\* Vocabulary of the properties
\* ------------------------------------------------------------------------
ClavesRoadmap == {Clave(roadmap[i].actividad) : i \in 1..Len(roadmap)}

EntradasDe(estrategia) == {i \in 1..Len(roadmap) : roadmap[i].estrategia = estrategia}

Orden(estrategia) ==
    CASE estrategia = "refuerzo" -> 1
      [] estrategia = "refuerzo_tiempo" -> 2
      [] estrategia = "mejora" -> 3
      [] estrategia = "nuevas" -> 4

ItemsNoRAP(estado) ==
    {i \in 1..Len(progreso) : progreso[i].tipo # "RAP" /\ progreso[i].estado = estado}

HayRAPEn(lista) == \E i \in 1..Len(lista) : lista[i].tipo = "RAP"

HayNoRAPEn(lista) == \E i \in 1..Len(lista) : lista[i].tipo # "RAP"

Centinela == [estrategia |-> "nuevas", actividad |-> <<>>]

\* x started no later than p; an item with no start is later than any dated one
NoMasTarde(x, p) ==
    IF x.start = <<>> THEN p.start = <<>>
    ELSE p.start = <<>> \/ x.start[1] <= p.start[1]

EstadoDe(estrategia) == IF estrategia = "refuerzo" THEN "Intento" ELSE "Completado"

\* relationships of any student with the activity that have a duration > 0
IntentosGlobales(clave) ==
    Cardinality({r \in relaciones : /\ <<r.tipo, r.nombre>> = clave
                                    /\ r.duration_seconds # <<>>
                                    /\ r.duration_seconds[1] > 0})

\* the timed relationships of the student asked about with the activity
IntentosPropios(clave) ==
    {r \in relaciones : /\ r.alumno = Consultado
                        /\ <<r.tipo, r.nombre>> = clave
                        /\ r.duration_seconds # <<>>
                        /\ r.duration_seconds[1] > 0}

IntentosDeTodos(clave) ==
    {r \in relaciones : /\ <<r.tipo, r.nombre>> = clave
                        /\ r.duration_seconds # <<>>
                        /\ r.duration_seconds[1] > 0}

\* the student's average time on the activity is above the cohort's average
MasLentoQueElGrupo(clave) ==
    /\ IntentosPropios(clave) # {}
    /\ SumaDuraciones(IntentosPropios(clave)) * Cardinality(IntentosDeTodos(clave))
           > SumaDuraciones(IntentosDeTodos(clave)) * Cardinality(IntentosPropios(clave))

\* the non-RAP activities of the student that meet the floor of global
\* attempts and have a percent difference above 0
LentasDelAlumno ==
    {k \in {<<r.tipo, r.nombre>> : r \in relaciones} :
        /\ k[1] # "RAP"
        /\ IntentosGlobales(k) >= 3
        /\ MasLentoQueElGrupo(k)}

DiferenciaDe(clave) ==
    DiferenciaPorcentual(SumaDuraciones(IntentosPropios(clave)),
                         Cardinality(IntentosPropios(clave)),
                         SumaDuraciones(IntentosDeTodos(clave)),
                         Cardinality(IntentosDeTodos(clave)))

\* the comparisons of the analysis that carry an efficiency category
Categorizadas ==
    IF analisis # <<>> /\ "comparativas" \in DOMAIN analisis[1]
    THEN {analisis[1].comparativas[i] : i \in 1..Len(analisis[1].comparativas)}
         \cap {c \in {analisis[1].comparativas[i] : i \in 1..Len(analisis[1].comparativas)} :
                   "eficiencia" \in DOMAIN c}
    ELSE {}

\* the student asked about has a non-RAP activity that is not Perfecto
TieneNoPerfecto ==
    \E r \in relaciones : r.alumno = Consultado /\ r.tipo # "RAP" /\ r.relacion # "Perfecto"

\* generar_roadmap_from_progress_and_fetcher has been called
Llamado == pc \notin {"inicio", "recomendado"}

\* ------------------------------------------------------------------------
\* Properties
\* ------------------------------------------------------------------------

\* C1: the roadmap, at every point of its construction and when it is
\* returned, holds each (tipo, nombre) key at most once.
C1_SinDuplicados ==
    \A i, j \in 1..Len(roadmap) :
        i # j => Clave(roadmap[i].actividad) # Clave(roadmap[j].actividad)

\* a returned roadmap for a slow-activities list that names twice an activity
\* that is also Intento or Completado in the progress
C1_Testigo ==
    /\ pc = "fin"
    /\ Len(actividades_lentas) = 2
    /\ Clave(actividades_lentas[1]) = Clave(actividades_lentas[2])
    /\ Clave(actividades_lentas[1]) \in Claves(actividades_intento) \cup Claves(actividades_mejora)
    /\ Len(progreso) = 2
    /\ Clave(progreso[1]) = Clave(progreso[2])
    /\ Clave(actividades_lentas[1]) \in ClavesRoadmap

\* C2: in the roadmap every refuerzo entry is before every refuerzo_tiempo
\* entry, which is before every mejora entry, which is before every nuevas entry.
C2_OrdenDeFases ==
    \A i, j \in 1..Len(roadmap) :
        i < j => Orden(roadmap[i].estrategia) <= Orden(roadmap[j].estrategia)

\* a returned roadmap with a slow activity, a Completado activity and a new one
C2_Testigo ==
    /\ pc = "fin"
    /\ EntradasDe("refuerzo_tiempo") # {}
    /\ EntradasDe("mejora") # {}
    /\ EntradasDe("nuevas") # {}

\* C3: with a non-RAP Intento item in the progress the recommendation is
\* refuerzo with an Intento item; it is mejora only when there is no non-RAP
\* Intento item and there is a non-RAP Completado item.
C3_Prioridad ==
    sugerencia # <<>> =>
        LET r == sugerencia[1]
        IN  /\ ItemsNoRAP("Intento") # {} =>
                   /\ r.estrategia = "refuerzo"
                   /\ r.actividad # <<>>
                   /\ \E i \in ItemsNoRAP("Intento") : r.actividad[1] = progreso[i]
            /\ r.estrategia = "mejora" =>
                   /\ ItemsNoRAP("Intento") = {}
                   /\ ItemsNoRAP("Completado") # {}

\* a refuerzo recommendation for a progress with Intento, Completado and
\* Perfecto items, the Intento one last
C3_Testigo ==
    /\ sugerencia # <<>>
    /\ sugerencia[1].estrategia = "refuerzo"
    /\ Len(progreso) = 3
    /\ progreso[1].tipo # "RAP" /\ progreso[1].estado = "Perfecto"
    /\ progreso[2].tipo # "RAP" /\ progreso[2].estado = "Completado"
    /\ progreso[3].tipo # "RAP" /\ progreso[3].estado = "Intento"

\* C4: the activity returned with refuerzo (resp. mejora) started no later
\* than any non-RAP Intento (resp. Completado) item of the progress, an item
\* with no start counting as later than every dated item.
C4_MasAntigua ==
    (sugerencia # <<>> /\ sugerencia[1].estrategia \in {"refuerzo", "mejora"}) =>
        \A i \in ItemsNoRAP(EstadoDe(sugerencia[1].estrategia)) :
            NoMasTarde(sugerencia[1].actividad[1], progreso[i])

\* three Intento items listed undated, March, January: the January one is returned
C4_Testigo ==
    /\ sugerencia # <<>>
    /\ sugerencia[1].estrategia = "refuerzo"
    /\ Len(progreso) = 3
    /\ \A i \in 1..3 : progreso[i].tipo # "RAP" /\ progreso[i].estado = "Intento"
    /\ progreso[1].start = <<>>
    /\ progreso[2].start = <<20240301>>
    /\ progreso[3].start = <<20240101>>
    /\ sugerencia[1].actividad = <<progreso[3]>>

\* C5: for the empty progress, for a progress of RAP items only and for a
\* progress whose non-RAP items are all Perfecto, the recommendation is the
\* sentinel {estrategia: nuevas, actividad: None}.
C5_Centinela ==
    (/\ sugerencia # <<>>
     /\ \A i \in 1..Len(progreso) :
            progreso[i].tipo = "RAP" \/ progreso[i].estado = "Perfecto")
    => sugerencia[1] = Centinela

\* the sentinel for a progress that holds a RAP item in state Intento and a
\* Perfecto item
C5_Testigo ==
    /\ sugerencia = <<Centinela>>
    /\ \E i \in 1..Len(progreso) : progreso[i].tipo = "RAP" /\ progreso[i].estado = "Intento"
    /\ ItemsNoRAP("Perfecto") # {}

\* C6: a roadmap never holds more than MAX_ACTIVIDADES_NUEVAS nuevas entries.
C6_TopeNuevas == Cardinality(EntradasDe("nuevas")) <= MAX_ACTIVIDADES_NUEVAS

\* the new phase has ended with the cap reached while the fetcher still had
\* new activities to give
C6_Testigo ==
    /\ pc = "fin"
    /\ Cardinality(EntradasDe("nuevas")) = MAX_ACTIVIDADES_NUEVAS
    /\ entregadas < catalogo
    /\ siguiente # <<>>

\* C7: with a fetcher that returns None after finitely many calls, the
\* roadmap builder, once called, terminates.
C7_TerminaSiAgota == (Llamado /\ restantes # <<>>) ~> (pc = "fin")

\* the builder has returned after the fetcher gave new activities and then
\* became exhausted
C7_Testigo ==
    /\ pc = "fin"
    /\ restantes = <<0>>
    /\ siguiente = <<>>
    /\ EntradasDe("nuevas") # {}

\* C8 as stated: the roadmap builder, once called, terminates for every fetcher.
C8_TerminaSiempre == Llamado ~> (pc = "fin")

\* C8 amended: the roadmap builder, once called, terminates for every fetcher,
\* one that never returns None included, unless from some call on the fetcher
\* returns RAP activities only, which the skipping loop consumes without bound.
C8_TerminaSalvoRAP == (Llamado ~> (pc = "fin")) \/ <>[](pc = "saltar_rap")

\* the builder has returned although the fetcher made no promise and never
\* returned None
C8_Testigo ==
    /\ pc = "fin"
    /\ restantes = <<>>
    /\ siguiente # <<>>
    /\ roadmap # <<>>

\* C9: in the new phase, a call of the fetcher that returns a non-RAP activity
\* whose key is already in the roadmap ends the phase in that step with the
\* roadmap as it was, and once the phase has ended there is no further call
\* and no further entry.
C9_RepetidaTermina ==
    [][/\ (/\ pc \in {"nuevas", "saltar_rap"}
           /\ siguiente' # <<>>
           /\ ~EsRAP(siguiente'[1])
           /\ Clave(siguiente'[1]) \in ClavesRoadmap)
          => (pc' = "fin" /\ roadmap' = roadmap)
       /\ pc = "fin" => (pc' = "fin" /\ roadmap' = roadmap /\ siguiente' = siguiente)
      ]_vars

\* the new phase has ended below the cap on an activity that was in the roadmap
C9_Testigo ==
    /\ pc = "fin"
    /\ siguiente # <<>>
    /\ ~EsRAP(siguiente[1])
    /\ actividades_nuevas_agregadas < MAX_ACTIVIDADES_NUEVAS
    /\ \E i \in 1..Len(roadmap) :
           i < Len(roadmap) /\ Clave(roadmap[i].actividad) = Clave(siguiente[1])

\* C10: no roadmap entry and no recommended activity has tipo RAP.
C10_SinRAP ==
    /\ \A i \in 1..Len(roadmap) : roadmap[i].actividad.tipo # "RAP"
    /\ sugerencia # <<>> =>
           (sugerencia[1].actividad = <<>> \/ sugerencia[1].actividad[1].tipo # "RAP")

\* a recommendation and a returned roadmap for a progress and a slow-activities
\* list that both hold RAP items
C10_Testigo ==
    /\ pc = "fin"
    /\ roadmap # <<>>
    /\ sugerencia # <<>>
    /\ sugerencia[1].actividad # <<>>
    /\ HayRAPEn(progreso)
    /\ HayRAPEn(actividades_lentas)

\* C11: for a progress with no non-RAP item the builder skips the first three
\* phases: the classification is the one of the empty progress, nothing is in
\* the roadmap when the new phase starts, and the roadmap only ever holds
\* nuevas entries, one per activity the fetcher supplied; the new phase reads
\* the roadmap, the seen set and the fetcher only, so the roadmap is the one
\* built for the empty progress with the same fetcher and slow list.
C11_SoloNuevas ==
    (Llamado /\ ~HayNoRAPEn(progreso)) =>
        /\ prog_map = _crear_mapa_progreso(<<>>)
        /\ LET c == _clasificar_actividades_por_estrategia(
                        _crear_mapa_progreso(<<>>), {}, actividades_lentas)
           IN  /\ actividades_intento = c.intento
               /\ actividades_mejora = c.mejora
               /\ actividades_lentas_activas = c.lentas_activas
        /\ \A i \in 1..Len(roadmap) : roadmap[i].estrategia = "nuevas"
        /\ pc \in {"refuerzo", "refuerzo_tiempo", "mejora"} => roadmap = <<>>
        /\ actividades_vistas = ClavesRoadmap
        /\ actividades_nuevas_agregadas = Len(roadmap)

\* a returned roadmap with a new activity for a progress of RAP items and a
\* non-empty slow list
C11_Testigo ==
    /\ pc = "fin"
    /\ progreso # <<>>
    /\ ~HayNoRAPEn(progreso)
    /\ actividades_lentas # <<>>
    /\ roadmap # <<>>

\* C12: no step of generar_roadmap_from_progress_and_fetcher changes the
\* progress list (its items, their order, their estado and other fields) or
\* the slow-activities list it was given.
C12_SoloLee ==
    [][Llamado' => (progreso' = progreso /\ actividades_lentas' = actividades_lentas)]_vars

\* a returned roadmap whose refuerzo_tiempo entry carries the slow data merged
\* with the progress item, while the progress item itself has no such field
C12_Testigo ==
    /\ pc = "fin"
    /\ \E i \in EntradasDe("refuerzo_tiempo"), j \in 1..Len(progreso) :
           /\ Clave(roadmap[i].actividad) = Clave(progreso[j])
           /\ "diferencia_porcentual" \in DOMAIN roadmap[i].actividad
           /\ roadmap[i].actividad.estado = progreso[j].estado
           /\ "diferencia_porcentual" \notin DOMAIN progreso[j]

\* C13: the efficiency category of a comparison follows the table: below -25
\* percent MUY_EFICIENTE, from -25 to below -10 EFICIENTE, from -10 to below 10
\* PROMEDIO, from 10 to below 30 LENTO, 30 and above MUY_LENTO; each lower
\* bound belongs to its own interval, so -25 is EFICIENTE.
C13_Tabla ==
    \A c \in Categorizadas :
        LET d == c.diferencia_porcentual
        IN  /\ d < -25 * Escala => c.eficiencia = "MUY_EFICIENTE"
            /\ (-25 * Escala <= d /\ d < -10 * Escala) => c.eficiencia = "EFICIENTE"
            /\ (-10 * Escala <= d /\ d < 10 * Escala) => c.eficiencia = "PROMEDIO"
            /\ (10 * Escala <= d /\ d < 30 * Escala) => c.eficiencia = "LENTO"
            /\ 30 * Escala <= d => c.eficiencia = "MUY_LENTO"

\* an analysis with an activity at exactly -25 percent, EFICIENTE, and one at
\* exactly 30 percent, MUY_LENTO
C13_Testigo ==
    /\ \E c \in Categorizadas :
           c.diferencia_porcentual = -25 * Escala /\ c.eficiencia = "EFICIENTE"
    /\ \E c \in Categorizadas :
           c.diferencia_porcentual = 30 * Escala /\ c.eficiencia = "MUY_LENTO"

\* C14 as stated: a comparison whose percent difference is exactly 10 is
\* PROMEDIO, not LENTO.
C14_DiezEsPromedio ==
    \A c \in Categorizadas :
        c.diferencia_porcentual = 10 * Escala => c.eficiencia = "PROMEDIO"

\* C14 amended: a comparison whose percent difference is exactly 10 is LENTO,
\* not PROMEDIO; PROMEDIO is the category of the differences from -10 up to,
\* and not including, 10.
C14_DiezEsLento ==
    \A c \in Categorizadas :
        /\ c.diferencia_porcentual = 10 * Escala => c.eficiencia = "LENTO"
        /\ c.eficiencia = "PROMEDIO" <=>
               (-10 * Escala <= c.diferencia_porcentual /\ c.diferencia_porcentual < 10 * Escala)

\* an analysis with an activity the student took 1100 s on against a cohort
\* average of 1000 s, LENTO, and one just below 10 percent, PROMEDIO
C14_Testigo ==
    /\ \E c \in Categorizadas :
           c.diferencia_porcentual = 10 * Escala /\ c.eficiencia = "LENTO"
    /\ \E c \in Categorizadas :
           c.diferencia_porcentual = 10 * Escala - 10 /\ c.eficiencia = "PROMEDIO"

\* C15: for a student with a non-RAP activity that is not Perfecto,
\* analizar_rendimiento_comparativo returns a result that has the key error,
\* and nothing else, and raises nothing.
C15_ErrorEstructurado ==
    (analisis # <<>> /\ TieneNoPerfecto) =>
        /\ DOMAIN analisis[1] = {"error"}
        /\ pc = "analizado"

\* the error result for a student with one Completado activity, whose
\* statistics hold an activity with a time
C15_Testigo ==
    /\ analisis # <<>>
    /\ "error" \in DOMAIN analisis[1]
    /\ \E r \in relaciones : r.alumno = Consultado /\ r.relacion = "Completado"
    /\ \A r \in relaciones : r.relacion \in {"Completado", "Perfecto"}
    /\ \E i \in 1..Len(stats_alumno) : stats_alumno[i].intentos = <<1300>>

\* C16: after any sequence of upserts the database holds at most one
\* relationship per (student, activity type, activity name), and the progress
\* list fetched for a student holds at most one item per (tipo, nombre).
C16_UnaPorActividad ==
    /\ \A r1, r2 \in relaciones :
           (r1.alumno = r2.alumno /\ r1.tipo = r2.tipo /\ r1.nombre = r2.nombre) => r1 = r2
    /\ \A i, j \in 1..Len(progreso) : i # j => Clave(progreso[i]) # Clave(progreso[j])

\* C17: when recomendar_siguiente_from_progress gives the sentinel for a
\* student with recorded progress, ver_siguiente_actividad_alumno asks
\* fetch_siguiente_actividad and ends normally.
C17_ConsultaFetcher ==
    (salida # <<>> /\ progreso # <<>> /\ sugerencia = <<Centinela>>) =>
        salida[1] = [fin |-> "normal", fetcher |-> TRUE]

\* C18: an activity with fewer than 3 timed relationships over all students
\* is never in the slow-activities list fetched from the database and never
\* gets a refuerzo_tiempo entry in the roadmap built from that list.
C18_PisoDeIntentos ==
    /\ \A i \in 1..Len(actividades_lentas) : IntentosGlobales(Clave(actividades_lentas[i])) >= 3
    /\ \A i \in EntradasDe("refuerzo_tiempo") : IntentosGlobales(Clave(roadmap[i].actividad)) >= 3

\* a returned roadmap for a student who took 300 s on an activity that only one
\* other student timed, at 100 s: the activity is not slow and not refuerzo_tiempo
C18_Testigo ==
    /\ pc = "fin"
    /\ roadmap # <<>>
    /\ \E r1, r2 \in relaciones :
           /\ r1.alumno = Consultado /\ r1.duration_seconds = <<300>>
           /\ r2.alumno # Consultado /\ r2.duration_seconds = <<100>>
           /\ Clave(r1) = Clave(r2)
           /\ IntentosGlobales(Clave(r1)) = 2
           /\ MasLentoQueElGrupo(Clave(r1))
    /\ actividades_lentas = <<>>
    /\ EntradasDe("refuerzo_tiempo") = {}

\* C19 as stated: the slow-activities list holds exactly the student's non-RAP
\* activities that meet the floor and have a percent difference above 0,
\* however many there are.
C19_TodasLasLentas ==
    pc = "lentas" => Claves(actividades_lentas) = LentasDelAlumno

\* C19 amended: the slow-activities list holds only such activities, each
\* once; all of them when they are at most 10, and otherwise 10 of them, none
\* of which has a smaller percent difference than one that was left out.
C19_LasDiezMasLentas ==
    pc = "lentas" =>
        /\ Claves(actividades_lentas) \subseteq LentasDelAlumno
        /\ Cardinality(Claves(actividades_lentas)) = Len(actividades_lentas)
        /\ Len(actividades_lentas) =
               IF Cardinality(LentasDelAlumno) <= 10 THEN Cardinality(LentasDelAlumno) ELSE 10
        /\ \A k \in LentasDelAlumno \ Claves(actividades_lentas) :
               \A i \in 1..Len(actividades_lentas) :
                   DiferenciaDe(k) <= actividades_lentas[i].diferencia_porcentual

\* the list fetched for a student who is slower than the cohort on 11
\* activities holds 10 of them
C19_Testigo ==
    /\ pc = "lentas"
    /\ Cardinality(LentasDelAlumno) = 11
    /\ Len(actividades_lentas) = 10

\* C20: filtering the RAP items out of an already filtered progress list
\* returns that list unchanged, with the filter of
\* recomendar_siguiente_from_progress and with the one of _crear_mapa_progreso,
\* whose map is the same for the list and for the filtered list.
C20_FiltroIdempotente ==
    sugerencia # <<>> =>
        /\ FiltrarRAP(progreso_sin_rap) = progreso_sin_rap
        /\ SelectSeq(progreso_sin_rap, NoEsRAP) = progreso_sin_rap
        /\ _crear_mapa_progreso(progreso_sin_rap) = _crear_mapa_progreso(progreso)

\* the filtered list of a progress with a gradeable item between two RAP items
C20_Testigo ==
    /\ sugerencia # <<>>
    /\ Len(progreso) = 3
    /\ progreso[1].tipo = "RAP"
    /\ progreso[2].tipo # "RAP"
    /\ progreso[3].tipo = "RAP"
    /\ progreso_sin_rap = <<progreso[2]>>

\* ------------------------------------------------------------------------
\* C21. An activity is placed as 'refuerzo_tiempo' exactly when its key is in
\* the slow list, it is a non-RAP activity of the student's progress and the
\* refuerzo phase did not place it, whatever its state: a slow Completado
\* activity is placed as refuerzo_tiempo and never also as mejora, and a slow
\* Perfecto activity is placed as refuerzo_tiempo.
\* ------------------------------------------------------------------------
ClavesDeEstrategia(estrategia) == {Clave(roadmap[i].actividad) : i \in EntradasDe(estrategia)}

ClavesLentas == {Clave(actividades_lentas[i]) : i \in 1..Len(actividades_lentas)}

ClavesProgresoNoRAP == {Clave(progreso[i]) : i \in {j \in 1..Len(progreso) : progreso[j].tipo # "RAP"}}

\* the second phase is over
PasadoRefuerzoTiempo == pc \in {"mejora", "nuevas", "saltar_rap", "fin"}

C21_RefuerzoTiempo ==
    PasadoRefuerzoTiempo =>
        /\ ClavesDeEstrategia("refuerzo_tiempo")
               = (ClavesLentas \cap ClavesProgresoNoRAP) \ ClavesDeEstrategia("refuerzo")
        /\ ClavesDeEstrategia("refuerzo_tiempo") \cap ClavesDeEstrategia("mejora") = {}

\* a slow Completado activity and a slow Perfecto activity, both placed as
\* refuerzo_tiempo, and a builder that has finished
C21_Testigo ==
    /\ pc = "fin"
    /\ \E i, j \in 1..Len(progreso) :
           /\ progreso[i].tipo # "RAP" /\ progreso[i].estado = "Completado"
           /\ progreso[j].tipo # "RAP" /\ progreso[j].estado = "Perfecto"
           /\ {Clave(progreso[i]), Clave(progreso[j])} \subseteq ClavesLentas
           /\ {Clave(progreso[i]), Clave(progreso[j])} \subseteq ClavesDeEstrategia("refuerzo_tiempo")
           /\ Clave(progreso[i]) # Clave(progreso[j])

\* ------------------------------------------------------------------------
\* C22. The refuerzo_tiempo entries of the roadmap are in non-increasing order
\* of diferencia_porcentual, whatever the order of the slow list; an entry
\* with no diferencia_porcentual counts as 0.
\* ------------------------------------------------------------------------
DiferenciaOCero(act) ==
    IF "diferencia_porcentual" \in DOMAIN act THEN act.diferencia_porcentual ELSE 0

C22_MasLentasPrimero ==
    \A i, j \in EntradasDe("refuerzo_tiempo") :
        i < j => DiferenciaOCero(roadmap[i].actividad) >= DiferenciaOCero(roadmap[j].actividad)

\* a slow list in increasing order whose first entry has a negative
\* difference and whose second has none, both placed, the second one first
C22_Testigo ==
    /\ pc = "fin"
    /\ Len(actividades_lentas) = 2
    /\ "diferencia_porcentual" \in DOMAIN actividades_lentas[1]
    /\ actividades_lentas[1].diferencia_porcentual < 0
    /\ "diferencia_porcentual" \notin DOMAIN actividades_lentas[2]
    /\ \E i, j \in EntradasDe("refuerzo_tiempo") :
           /\ i < j
           /\ Clave(roadmap[i].actividad) = Clave(actividades_lentas[2])
           /\ "diferencia_porcentual" \notin DOMAIN roadmap[i].actividad
           /\ Clave(roadmap[j].actividad) = Clave(actividades_lentas[1])

\* ------------------------------------------------------------------------
\* C23. When the builder has returned, the key of every non-RAP Intento item
\* of the progress list is in the roadmap under 'refuerzo', and every
\* 'refuerzo' entry is an activity in state Intento.
\* ------------------------------------------------------------------------
C23_IntentoEnRefuerzo ==
    pc = "fin" =>
        /\ \A i \in ItemsNoRAP("Intento") : Clave(progreso[i]) \in ClavesDeEstrategia("refuerzo")
        /\ \A e \in EntradasDe("refuerzo") : roadmap[e].actividad.estado = "Intento"

\* ------------------------------------------------------------------------
\* C24. When the builder has returned, the key of every non-RAP Completado
\* item of the progress list is in the roadmap exactly once, under 'mejora'
\* unless an earlier phase placed it, and every 'mejora' entry is an
\* activity in state Completado.
\* ------------------------------------------------------------------------
C24_CompletadoUnaVez ==
    pc = "fin" =>
        /\ \A i \in ItemsNoRAP("Completado") :
               /\ Cardinality({e \in 1..Len(roadmap) :
                                   Clave(roadmap[e].actividad) = Clave(progreso[i])}) = 1
               /\ \/ Clave(progreso[i]) \in ClavesDeEstrategia("mejora")
                  \/ Clave(progreso[i]) \in ClavesDeEstrategia("refuerzo")
                                             \cup ClavesDeEstrategia("refuerzo_tiempo")
        /\ \A e \in EntradasDe("mejora") : roadmap[e].actividad.estado = "Completado"

\* ------------------------------------------------------------------------
\* C29. For a progress list with one item per key and no slow list, the
\* recommendation and the roadmap agree: when the recommendation is
\* 'refuerzo' or 'mejora' the first roadmap entry has that strategy, and when
\* it is 'nuevas' the roadmap has no refuerzo and no mejora entry.
\* ------------------------------------------------------------------------
ClavesUnicas == \A i, j \in 1..Len(progreso) : Clave(progreso[i]) = Clave(progreso[j]) => i = j

C29_RecomendacionYRoadmap ==
    (pc = "fin" /\ actividades_lentas = <<>> /\ ClavesUnicas /\ sugerencia # <<>>) =>
        /\ sugerencia[1].estrategia \in {"refuerzo", "mejora"} =>
               /\ roadmap # <<>>
               /\ roadmap[1].estrategia = sugerencia[1].estrategia
        /\ sugerencia[1].estrategia = "nuevas" =>
               EntradasDe("refuerzo") \cup EntradasDe("mejora") = {}

\* a RAP item in Intento and a Completado activity: the recommendation is
\* 'mejora' and the roadmap starts with a mejora entry
C29_Testigo ==
    /\ pc = "fin"
    /\ actividades_lentas = <<>>
    /\ ClavesUnicas
    /\ \E i \in 1..Len(progreso) : progreso[i].tipo = "RAP" /\ progreso[i].estado = "Intento"
    /\ sugerencia # <<>>
    /\ sugerencia[1].estrategia = "mejora"
    /\ roadmap # <<>>
    /\ roadmap[1].estrategia = "mejora"

\* ------------------------------------------------------------------------
\* C26. For an eligible student the analysis has exactly one comparison for
\* each non-RAP activity of the student with a recorded duration above 0,
\* none for any other activity, and actividades_analizadas is the number of
\* comparisons.
\* ------------------------------------------------------------------------
Analizado == pc = "analizado" /\ analisis # <<>> /\ "comparativas" \in DOMAIN analisis[1]

\* the non-RAP activities of the student's statistics with a duration above 0
Analizables ==
    {<<stats_alumno[i].tipo, stats_alumno[i].nombre>> :
        i \in {j \in 1..Len(stats_alumno) :
                  /\ stats_alumno[j].tipo # "RAP"
                  /\ \E n \in 1..Len(stats_alumno[j].intentos) : stats_alumno[j].intentos[n] > 0}}

ComparativasDe(clave) ==
    {i \in 1..Len(analisis[1].comparativas) :
        <<analisis[1].comparativas[i].tipo, analisis[1].comparativas[i].actividad>> = clave}

C26_UnaComparativaPorActividad ==
    Analizado =>
        /\ \A k \in Analizables : Cardinality(ComparativasDe(k)) = 1
        /\ \A i \in 1..Len(analisis[1].comparativas) :
               <<analisis[1].comparativas[i].tipo, analisis[1].comparativas[i].actividad>>
                   \in Analizables
        /\ analisis[1].resumen_general.actividades_analizadas = Len(analisis[1].comparativas)

\* an activity with a time, compared, next to one with no time, left out
C26_Testigo ==
    /\ Analizado
    /\ Len(analisis[1].comparativas) = 1
    /\ Len(stats_alumno) = 2
    /\ \E i \in 1..2 : stats_alumno[i].tipo # "RAP" /\ stats_alumno[i].intentos = <<0>>

\* ------------------------------------------------------------------------
\* C27. Whenever the analysis has at least one comparison, the insights hold
\* exactly one of the two recommendations on speed: the one on general speed
\* when the very slow activities are more than 50% of the compared ones, the
\* one on specific activities when they are not.
\* ------------------------------------------------------------------------
MuyLentas == {i \in 1..Len(analisis[1].comparativas) :
                 TieneEficiencia(analisis[1].comparativas[i], "MUY_LENTO")}

Recomendadas(texto) ==
    Cardinality({i \in 1..Len(analisis[1].recomendaciones) :
                    analisis[1].recomendaciones[i] = texto})

MasDeLaMitad == Cardinality(MuyLentas) * 100 > 50 * Len(analisis[1].comparativas)

UnaSobreVelocidad ==
    /\ Recomendadas("velocidad_general") + Recomendadas("actividades_especificas") = 1
    /\ Recomendadas("velocidad_general") = 1 <=> MasDeLaMitad

C27_SiempreUnaSobreVelocidad ==
    (Analizado /\ analisis[1].comparativas # <<>>) => UnaSobreVelocidad

\* C27, amended. With at least one very slow activity among the comparisons
\* the insights hold exactly one of the two recommendations on speed, on
\* general speed when the very slow activities are more than 50% of the
\* compared ones and on specific activities when not; with no very slow
\* activity they hold neither.
C27_UnaSiHayMuyLentas ==
    (Analizado /\ analisis[1].comparativas # <<>>) =>
        IF MuyLentas # {}
        THEN UnaSobreVelocidad
        ELSE Recomendadas("velocidad_general") + Recomendadas("actividades_especificas") = 0

\* two comparisons, one of them very slow: exactly half, and the
\* recommendation is the one on specific activities
C27_Testigo ==
    /\ Analizado
    /\ Len(analisis[1].comparativas) = 2
    /\ Cardinality(MuyLentas) = 1
    /\ Recomendadas("actividades_especificas") = 1
    /\ Recomendadas("velocidad_general") = 0

\* ------------------------------------------------------------------------
\* C28. When the eligibility check returns False the analysis returns its
\* error result and calls neither the fetcher of the cohort statistics nor
\* the fetcher of the student's statistics; when it returns True each of the
\* two is called exactly once, after the eligibility check.
\* ------------------------------------------------------------------------
LlamadasA(funcion) == {i \in 1..Len(llamadas) : llamadas[i] = funcion}

Elegible == fetch_verificar_alumno_perfecto(relaciones, Consultado)

C28_FetchersTrasElegibilidad ==
    pc = "analizado" =>
        /\ Cardinality(LlamadasA("fetch_verificar_perfecto_func")) = 1
        /\ IF Elegible
           THEN \A f \in {"fetch_estadisticas_globales_func", "fetch_estadisticas_alumno_func"} :
                    /\ Cardinality(LlamadasA(f)) = 1
                    /\ \A i \in LlamadasA(f), v \in LlamadasA("fetch_verificar_perfecto_func") :
                           v < i
           ELSE /\ analisis = <<[error |-> "no_todo_perfecto"]>>
                /\ LlamadasA("fetch_estadisticas_globales_func") = {}
                /\ LlamadasA("fetch_estadisticas_alumno_func") = {}

\* a student who is not eligible although there are statistics to fetch
C28_Testigo ==
    /\ pc = "analizado"
    /\ ~Elegible
    /\ stats_alumno # <<>>
    /\ stats_globales # <<>>
    /\ llamadas = <<"fetch_verificar_perfecto_func">>
    /\ "error" \in DOMAIN analisis[1]

\* ------------------------------------------------------------------------
\* C25. fetch_roadmap_desde_progreso simulates the changes of state on a
\* working copy of its own: no step of it changes the estado of an item of
\* the caller's progress list, so that after it returns every item has the
\* estado it had before the call.
\* ------------------------------------------------------------------------
C25_ProgresoIntacto ==
    [][/\ Len(progreso') = Len(progreso)
       /\ \A i \in 1..Len(progreso) : progreso'[i].estado = progreso[i].estado]_vars

\* ------------------------------------------------------------------------
\* C30. The loop of fetch_roadmap_desde_progreso ends for every progress
\* list when the fetcher at some call returns None or an activity it has
\* returned before (a fetcher with finitely many activities does one or the
\* other), and the roadmap holds each (tipo, nombre, estrategia) at most once.
\* ------------------------------------------------------------------------
SinTriplesRepetidos ==
    \A i, j \in 1..Len(roadmap) :
        (/\ Clave(roadmap[i].actividad) = Clave(roadmap[j].actividad)
         /\ roadmap[i].estrategia = roadmap[j].estrategia) => i = j

C30_TerminaSinRepetir ==
    /\ (pc = "while") ~> (pc = "return")
    /\ [](pc \in {"while", "return"} => SinTriplesRepetidos)

\* the loop has ended because the fetcher returned an activity again, after
\* the simulation placed an activity in Intento and two the fetcher returned
C30_Testigo ==
    /\ pc = "return"
    /\ siguiente # <<>>
    /\ <<siguiente[1].tipo, siguiente[1].nombre, "avance">> \in seen
    /\ Clave(roadmap[Len(roadmap)].actividad) # Clave(siguiente[1])
    /\ Cardinality(EntradasDe("avance")) >= 2
    /\ EntradasDe("refuerzo") # {}

====
